---- MODULE Spec2Model ----
(***************************************************************************)
(* A model of m3georeferencer:                                             *)
(*   read_m3.py               the windowed reader of the M3 binary raster  *)
(*   target_image.py          TargetImage and open_target                  *)
(*   utils.py                 forward_geotransform                         *)
(*   georeferencer.py         the interactive session and its GCP ledger  *)
(*   georeferencer_classes.py the step iterator and the session state      *)
(*                                                                         *)
(* The units do not share state, so each has a specification of its own    *)
(* (SpecRead, SpecHdr, SpecTarget, SpecFwd, SpecGeo); the variables of the *)
(* other units stay at their idle value.                                   *)
(***************************************************************************)
EXTENDS Integers, Sequences, FiniteSets, TLC

VARIABLES
    hdr_text,      \* read_m3: the text of the header file (one entry per field)
    img_size,      \* read_m3: os.path.getsize(img_path), in bytes
    geom,          \* read_m3: the geometry the image file was written with
    rd,            \* read_m3: the outcome of the last call
    ti,            \* TargetImage: the outcome of the last construction + open_target
    fwd,           \* forward_geotransform: the arguments and the value returned
    files,         \* Georeferencer: the files at save_path and at its .gcps path
    steps_index,   \* GeorefState.georef_steps.index (a class attribute: shared)
    current_gcp,   \* GeorefState.current_gcp (a class attribute: shared)
    session,       \* the live Georeferencer ("none" before the first construction)
    ctor           \* the outcome of the last Georeferencer(...) call

vars == <<hdr_text, img_size, geom, rd, ti, fwd, files, steps_index, current_gcp,
          session, ctor>>

readVars == <<hdr_text, img_size, geom, rd>>
geoVars  == <<files, steps_index, current_gcp, session, ctor>>

\* An optional value: None, or Some(v)
None == <<>>
Some(v) == <<v>>
Val(o) == o[1]

Max(a, b) == IF a >= b THEN a ELSE b
Min(a, b) == IF a <= b THEN a ELSE b

(***************************************************************************)
(* Bounds of the model.                                                    *)
(***************************************************************************)
MaxBands  == 2    \* band counts 1..MaxBands
MaxCols   == 2    \* sample counts 1..MaxCols (and the mirrored width, below)
MaxRows   == 2    \* rows stored in the image file, and the header's line count
MaxHdrLen == 1    \* per-line header bytes: no entry, or 1..MaxHdrLen

(***************************************************************************)
(* Header text.  A header is modelled entry by entry: for each key the     *)
(* characters that follow "<key> =" on its line, or None when the header   *)
(* has no such entry.  Characters are one-character strings.               *)
(***************************************************************************)
Digits == <<"0", "1", "2", "3", "4", "5", "6", "7", "8", "9">>

IsDigit(c) == \E k \in 1..10 : Digits[k] = c

DigitVal(c) == (CHOOSE k \in 1..10 : Digits[k] = c) - 1

\* re: \s
IsSpace(c) == c \in {" ", "\t"}

\* str(n) for n >= 0 (how a header writer prints a count)
RECURSIVE Str(_)
Str(n) == IF n < 10 THEN <<Digits[n + 1]>>
          ELSE Str(n \div 10) \o <<Digits[(n % 10) + 1]>>

\* re: the longest run of \s at the start of s (greedy \s*)
RECURSIVE SkipSpaces(_)
SkipSpaces(s) == IF s # <<>> /\ IsSpace(Head(s)) THEN SkipSpaces(Tail(s)) ELSE s

\* re: the longest run of \d at the start of s (greedy \d+)
RECURSIVE TakeDigits(_)
TakeDigits(s) == IF s # <<>> /\ IsDigit(Head(s))
                 THEN <<Head(s)>> \o TakeDigits(Tail(s))
                 ELSE <<>>

\* int(digits)
RECURSIVE ParseInt(_)
ParseInt(ds) == IF ds = <<>> THEN 0
                ELSE 10 * ParseInt(SubSeq(ds, 1, Len(ds) - 1)) + DigitVal(ds[Len(ds)])

Drop(s, n) == SubSeq(s, n + 1, Len(s))

\* re.findall(r"<key>\s=\s*(\d+)", fread): the captures, for the text after "="
FindCount(entry) ==
    IF entry = None THEN <<>>
    ELSE LET ds == TakeDigits(SkipSpaces(Val(entry)))
         IN  IF ds = <<>> THEN <<>> ELSE <<ds>>

\* The pattern of the second offset: \d, a single digit
SecondOffsetLen(s) == IF s # <<>> /\ IsDigit(Head(s)) THEN 1 ELSE 0

\* re.findall(r"\s*major\sframe\soffsets\s=\s\{(\d+),\s\d\}", fread): the
\* captures, for the text after "="
FindHdrLen(entry) ==
    IF entry = None THEN <<>>
    ELSE IF Len(Val(entry)) < 2 THEN <<>>
    ELSE IF ~(IsSpace(Val(entry)[1]) /\ Val(entry)[2] = "{") THEN <<>>
    ELSE LET ds   == TakeDigits(Drop(Val(entry), 2))
             r1   == Drop(Val(entry), 2 + Len(ds))
         IN  IF ds = <<>> \/ Len(r1) < 2 THEN <<>>
             ELSE IF ~(r1[1] = "," /\ IsSpace(r1[2])) THEN <<>>
             ELSE LET r2 == Drop(r1, 2)
                      n  == SecondOffsetLen(r2)
                  IN  IF n = 0 THEN <<>>
                      ELSE IF Len(r2) > n /\ r2[n + 1] = "}" THEN <<ds>>
                      ELSE <<>>

\* dtype_dict.get(code, (None, None)): the byte width of a data type code
DtypeBytes(code) ==
    CASE code = 5 -> Some(8)
      [] code = 4 -> Some(4)
      [] code = 2 -> Some(2)
      [] OTHER    -> None

\* read_m3, lines 46-63: the header fields, or the exception of the first
\* findall(...)[0] that finds nothing
ParseHeader(h) ==
    LET b == FindCount(h.bands)
        s == FindCount(h.samples)
        l == FindCount(h.lines)
        d == FindCount(h.dtype)
        o == FindHdrLen(h.offsets)
    IN  IF b = <<>> \/ s = <<>> \/ l = <<>> \/ d = <<>>
        THEN [err |-> "IndexError"]
        ELSE [err    |-> "none",
              nbands |-> ParseInt(b[1]),
              ncols  |-> ParseInt(s[1]),
              nlines |-> ParseInt(l[1]),
              nbytes |-> DtypeBytes(ParseInt(d[1])),
              hdrlen |-> IF Len(o) = 0 THEN 0 ELSE ParseInt(o[1])]

(***************************************************************************)
(* The image file.  Only its size is state: the byte at offset o is tagged *)
(* with o, so that two decoded samples are equal for every possible file   *)
(* content exactly when their tags are equal.  A bytes object read from    *)
(* the file is then a run of consecutive tags: [from, len].                *)
(***************************************************************************)

\* np.ndarray.shape[1] == 320
MirrorWidth == 320

\* f.read(n) at position pos of a file of `size` bytes: the bytes up to the
\* end of the file, at most n of them
ReadBytes(pos, n, size) ==
    [from |-> pos, len |-> Max(0, Min(n, size - pos))]

\* np.frombuffer(bindat, dtype): one sample per nbytes bytes, named by the
\* offset of its first byte
FromBuffer(bindat, nbytes) ==
    [s \in 1..(bindat.len \div nbytes) |-> bindat.from + (s - 1) * nbytes]

\* sum of the bytes delivered by the reads of a log
RECURSIVE BytesRead(_)
BytesRead(log) == IF log = <<>> THEN 0 ELSE Head(log).got + BytesRead(Tail(log))

\* read_m3, lines 105-111: bands j.. of output row i, the file being at pos.
\* g carries the loop's constants, acc the rows of the bands done so far, log
\* the reads made so far.
RECURSIVE BandLoop(_, _, _, _, _, _)
BandLoop(g, i, j, pos, acc, log) ==
    IF j = g.nbands
    THEN [err |-> "none", byte_index |-> pos, bands |-> acc, log |-> log]
    ELSE LET bindat     == ReadBytes(pos, g.W * g.nbytes, g.size)
             byte_index == pos + bindat.len
             target     == byte_index + g.col_end_buffer
             row        == FromBuffer(bindat, g.nbytes)
             log1       == Append(log, [row |-> i, band |-> j, from |-> pos,
                                        asked |-> g.W * g.nbytes,
                                        got |-> bindat.len])
         IN  IF target < 0 THEN [err |-> "OSError", log |-> log1]
             ELSE IF bindat.len % g.nbytes # 0
                  THEN [err |-> "ValueError: buffer size", log |-> log1]
             ELSE IF Len(row) # g.W /\ Len(row) # 1
                  THEN [err |-> "ValueError: broadcast", log |-> log1]
             ELSE BandLoop(g, i, j + 1, target,
                           Append(acc, [c \in 0..(g.W - 1) |->
                                          IF Len(row) = 1 THEN row[1] ELSE row[c + 1]]),
                           log1)

\* The position the file is moved to before the bands of an output row are
\* read: f.seek(col_offset + byte_index), line 104
RowSeek(g, byte_index) == g.col_offset + byte_index

\* read_m3, lines 103-111: output rows i.. , byte_index being the position
\* left by the last seek; starts lists that position for each row begun
RECURSIVE RowLoop(_, _, _, _, _, _)
RowLoop(g, i, byte_index, acc, log, starts) ==
    IF i = g.H THEN [err |-> "none", rows |-> acc, log |-> log, starts |-> starts]
    ELSE LET pos == RowSeek(g, byte_index)
             st  == Append(starts, byte_index)
         IN  IF pos < 0 THEN [err |-> "OSError", log |-> log, starts |-> st]
             ELSE LET r == BandLoop(g, i, 0, pos, <<>>, log)
                  IN  IF r.err # "none"
                      THEN [err |-> r.err, log |-> r.log, starts |-> st]
                      ELSE RowLoop(g, i + 1, r.byte_index, Append(acc, r.bands),
                                   r.log, st)

\* read_m3, lines 95-111: the frame before the mirroring rule,
\* window_data[i, c, j], all indices 0-based
Decode(g) ==
    LET r == RowLoop(g, 0, g.start_byte, <<>>, <<>>, <<>>)
    IN  IF g.W < 0 \/ g.H < 0
        THEN [err |-> "ValueError: negative dimensions", log |-> <<>>, starts |-> <<>>]
        ELSE IF g.start_byte < 0 THEN [err |-> "OSError", log |-> <<>>, starts |-> <<>>]
        ELSE IF r.err # "none" THEN r
        ELSE [err    |-> "none",
              log    |-> r.log,
              starts |-> r.starts,
              frame  |-> [i \in 0..(g.H - 1) |->
                           [c \in 0..(g.W - 1) |->
                             [j \in 0..(g.nbands - 1) |-> r.rows[i + 1][j + 1][c]]]]]

\* read_m3, line 113: whether the decoded frame is mirrored
IsMirrored(width) == width = MirrorWidth

\* Mutant of Mirror: the rows are reversed instead of the columns
Mirror_RowAxis(frame, width) ==
    IF IsMirrored(width)
    THEN [i \in DOMAIN frame |-> frame[Cardinality(DOMAIN frame) - 1 - i]]
    ELSE frame

\* read_m3, lines 113-114: window_data[:, ::-1, :]
Mirror(frame, width) ==
    IF IsMirrored(width)
    THEN [i \in DOMAIN frame |-> [c \in 0..(width - 1) |-> frame[i][width - 1 - c]]]
    ELSE frame

\* The messages of the three window errors, lines 88-93
RowBoundError  == "ValueError: Window does not fit within X bounds."
ColBoundError  == "ValueError: Window does not fit within Y bounds."
BothBoundError == "ValueError: Window does not fit within either X or Y bounds."

\* Mutant of ValidateWindow: the bounds are compared with >= instead of >
ValidateWindow_Strict(X, Y, W, H, ncols, total_rows) ==
    LET xbounds_chk == (Y + H) >= total_rows
        ybounds_chk == (X + W) >= ncols
    IN  IF xbounds_chk /\ ~ybounds_chk THEN RowBoundError
        ELSE IF ybounds_chk /\ ~xbounds_chk THEN ColBoundError
        ELSE IF xbounds_chk /\ ybounds_chk THEN BothBoundError
        ELSE "none"

\* read_m3, lines 86-93: the error of a window, "none" for a window that fits
ValidateWindow(X, Y, W, H, ncols, total_rows) ==
    LET xbounds_chk == (Y + H) > total_rows
        ybounds_chk == (X + W) > ncols
    IN  IF xbounds_chk /\ ~ybounds_chk THEN RowBoundError
        ELSE IF ybounds_chk /\ ~xbounds_chk THEN ColBoundError
        ELSE IF xbounds_chk /\ ybounds_chk THEN BothBoundError
        ELSE "none"

\* read_m3, line 73: the bytes of one physical row
FullColBytes(p) == p.hdrlen + (p.ncols * p.nbands * Val(p.nbytes))

\* Mutant of TotalRows: a trailing partial row counts as a row
TotalRows_Ceil(size, full_col_bytes) == (size + full_col_bytes - 1) \div full_col_bytes

\* read_m3, line 75
TotalRows(size, full_col_bytes) == size \div full_col_bytes

\* read_m3, line 81: the bytes skipped at the start of each output row
ColOffset(p, X) == p.hdrlen + (X * p.nbands * Val(p.nbytes))

\* Mutant of ColEndBuffer: the samples left of the window are not counted
ColEndBuffer_NoOffset(p, X, W) == (p.ncols - W) * Val(p.nbytes)

\* read_m3, line 83: the bytes skipped after each band's samples
ColEndBuffer(p, X, W) == (p.ncols - (X + W)) * Val(p.nbytes)

\* What a call of read_m3 leaves behind: the exception raised ("ok" for a
\* return), the header fields and the window it worked with, the reads made
\* of the image file (nread: the bytes they delivered), the file position at
\* the start of each output row, and the frame returned.
Outcome(e, p, X, Y, W, H, total_rows, log, starts, frame) ==
    [status |-> e, geom |-> p, X |-> X, Y |-> Y, W |-> W, H |-> H,
     total_rows |-> total_rows, reads |-> log, nread |-> BytesRead(log),
     starts |-> starts, frame |-> frame,
     shape |-> IF e = "ok" THEN <<H, W, p.nbands>> ELSE <<>>]

\* read_m3, lines 80-83 and the names the loop reads: its constants
LoopConsts(p, size, x, y, W, H) ==
    [size |-> size, nbytes |-> Val(p.nbytes), nbands |-> p.nbands,
     W |-> W, H |-> H,
     col_offset     |-> ColOffset(p, x),
     start_byte     |-> y * FullColBytes(p),
     col_end_buffer |-> ColEndBuffer(p, x, W)]

\* An exception raised before the window is looked at
Early(e, p) == [status |-> e, geom |-> p, reads |-> <<>>, nread |-> 0]

\* read_m3(img_path, hdr_path, x, y, w, h) as a whole; w and h are optional
ReadM3(hdr, size, x, y, w, h) ==
    LET p == ParseHeader(hdr)
    IN  IF p.err # "none" THEN Early(p.err, p)
        ELSE
        LET W == IF w = None \/ h = None THEN p.ncols ELSE Val(w)
            H == IF w = None \/ h = None THEN p.nlines ELSE Val(h)
        IN  IF p.nbytes = None THEN Early("ValueError: invalid data type", p)
            ELSE IF FullColBytes(p) = 0 THEN Early("ZeroDivisionError", p)
            ELSE
            LET full_col_bytes == FullColBytes(p)
                total_rows     == TotalRows(size, full_col_bytes)
                chk            == ValidateWindow(x, y, W, H, p.ncols, total_rows)
                d == Decode(LoopConsts(p, size, x, y, W, H))
            IN  IF chk # "none"
                THEN Outcome(chk, p, x, y, W, H, total_rows, <<>>, <<>>, <<>>)
                ELSE IF d.err # "none"
                THEN Outcome(d.err, p, x, y, W, H, total_rows, d.log, d.starts, <<>>)
                ELSE Outcome("ok", p, x, y, W, H, total_rows, d.log, d.starts,
                             Mirror(d.frame, W))

(***************************************************************************)
(* The files a call of read_m3 is given.  geom is the geometry the image   *)
(* file was written with; the header text states it.                       *)
(***************************************************************************)

\* ENVI data type codes and the bytes of a sample of each; read_m3 knows 2, 4
\* and 5, code 1 (a byte per sample) stands for the codes it does not know
DataTypeCodes == {1, 2, 4, 5}
EnviBytes(code) == CASE code = 1 -> 1 [] code = 2 -> 2 [] code = 4 -> 4 [] code = 5 -> 8

CountEntry(n) == Some(<<" ">> \o Str(n))
OffsetsEntry(a, b) ==
    Some(<<" ", "{">> \o Str(a) \o <<",", " ">> \o Str(b) \o <<"}">>)

\* The header of an image: off is None (no "major frame offsets" entry) or
\* the pair of offsets
HeaderOf(nbands, ncols, nlines, code, off) ==
    [bands   |-> CountEntry(nbands),
     samples |-> CountEntry(ncols),
     lines   |-> CountEntry(nlines),
     dtype   |-> CountEntry(code),
     offsets |-> IF off = None THEN None ELSE OffsetsEntry(off[1], off[2])]

\* bytes of one physical row of the file as written
RowStride(gm) == gm.hdrlen + gm.ncols * gm.nbands * gm.nbytes

Geometry(nbands, ncols, nlines, code, off, rows, extra) ==
    [nbands |-> nbands, ncols |-> ncols, nlines |-> nlines, code |-> code,
     nbytes |-> EnviBytes(code), off |-> off,
     hdrlen |-> IF off = None THEN 0 ELSE off[1],
     rows |-> rows, extra |-> extra]

Idle == [status |-> "idle"]

\* The units that are not exercised stay idle.
ReadIdle == /\ hdr_text = None
            /\ img_size = 0
            /\ geom = [nbands |-> 0]
            /\ rd = Idle
TargetIdle == ti = Idle
FwdIdle == fwd = Idle
GeoIdle == /\ files = Idle
           /\ steps_index = 0
           /\ current_gcp = Idle
           /\ session = Idle
           /\ ctor = Idle

InitFiles(gm) ==
    /\ geom = gm
    /\ hdr_text = HeaderOf(gm.nbands, gm.ncols, gm.nlines, gm.code, gm.off)
    /\ img_size = gm.rows * RowStride(gm) + gm.extra
    /\ rd = Idle

\* Narrow images of every geometry within the bounds, with and without a
\* trailing partial row
NarrowImages ==
    { Geometry(nbands, ncols, nlines, code,
               IF a = None THEN None ELSE <<Val(a), 0>>, nlines, extra) :
        nbands \in 1..MaxBands, ncols \in 1..MaxCols, nlines \in 1..MaxRows,
        code \in DataTypeCodes, a \in {None} \cup {Some(k) : k \in 1..MaxHdrLen},
        extra \in {0, 1} }

\* Images of the mirrored width, of 16-bit samples
WideImages ==
    { Geometry(nbands, MirrorWidth, MaxRows, 2, off, MaxRows, 0) :
        nbands \in 1..MaxBands, off \in {None, <<MaxHdrLen, 0>>} }

InitRead ==
    /\ \E gm \in NarrowImages \cup WideImages : InitFiles(gm)
    /\ TargetIdle /\ FwdIdle /\ GeoIdle

\* The window arguments of a call
XArgs == (-1)..(MaxCols - 1)
YArgs == (-1)..(MaxRows - 1)
WArgs == {None} \cup {Some(k) : k \in ((-1)..(MaxCols + 1)) \cup {MirrorWidth - 1, MirrorWidth}}
HArgs == {None} \cup {Some(k) : k \in (-1)..(MaxRows + 1)}

\* A call read_m3(img_path, hdr_path, x, y, w, h); the files are left as they
\* are.  read_m3 keeps nothing between calls, so a behaviour makes one call.
ReadM3Call ==
    /\ rd = Idle
    /\ geom.nbands > 0
    /\ \E x \in XArgs, y \in YArgs, w \in WArgs, h \in HArgs :
          rd' = ReadM3(hdr_text, img_size, x, y, w, h)
    /\ UNCHANGED <<hdr_text, img_size, geom, ti, fwd, geoVars>>

NextRead == ReadM3Call

SpecRead == InitRead /\ [][NextRead]_vars

\* Header texts whose "major frame offsets" entry has offsets of one and of
\* two digits
MaxFirstOffset  == 11
MaxSecondOffset == 11

InitHdr ==
    /\ \E off \in {None} \cup ((0..MaxFirstOffset) \X (0..MaxSecondOffset)) :
            InitFiles(Geometry(MaxBands, MaxCols, MaxRows, 2, off, MaxRows, 0))
    /\ TargetIdle /\ FwdIdle /\ GeoIdle

SpecHdr == InitHdr /\ [][NextRead]_vars

\* Image files whose header states a count of zero: the file was written
\* with the geometry gm; the bands, samples or lines entry of its header, or
\* several of them, read 0
ZeroImages ==
    { gm \in NarrowImages : gm.code = 2 /\ gm.extra = 0 }

InitZero ==
    /\ \E gm \in ZeroImages :
        \E nbands \in {0, gm.nbands}, ncols \in {0, gm.ncols}, nlines \in {0, gm.nlines} :
            /\ 0 \in {nbands, ncols, nlines}
            /\ geom = gm
            /\ hdr_text = HeaderOf(nbands, ncols, nlines, gm.code, gm.off)
            /\ img_size = gm.rows * RowStride(gm) + gm.extra
            /\ rd = Idle
    /\ TargetIdle /\ FwdIdle /\ GeoIdle

SpecZero == InitZero /\ [][NextRead]_vars

(***************************************************************************)
(* TargetImage and open_target.  Of the data array only the shape matters. *)
(***************************************************************************)
MaxDim == 2     \* each axis of the source array has 1..MaxDim entries

BandError   == "ValueError: If the array is 2D, the chosen band must be 0"
DimsError   == "ValueError: Target Image data has more than 3 dimensions"
WidthError  == "ValueError: Window width is larger than the image width"
HeightError == "ValueError: Window height is larger than the image height"

\* TargetImage.__post_init__, line 56: the band test made for a 2D array
BandRejected(band) == band > 0

\* TargetImage.__post_init__, lines 59-67: the width of the window, or the
\* error of a window too wide
CheckWidth(shape, col_offset, width) ==
    IF width = -1 THEN [err |-> "none", width |-> shape[2]]
    ELSE IF width + col_offset > shape[2] THEN [err |-> WidthError]
    ELSE [err |-> "none", width |-> width]

\* TargetImage.__post_init__, lines 69-77
CheckHeight(shape, row_offset, height) ==
    IF height = -1 THEN [err |-> "none", height |-> shape[1]]
    ELSE IF height + row_offset > shape[1] THEN [err |-> HeightError]
    ELSE [err |-> "none", height |-> height]

\* TargetImage(data, row_offset, col_offset, width, height, band): the object
\* after __post_init__, or the exception.  shape is data.shape (a tuple, so
\* shape[k + 1] here is shape[k] there).
NewTargetImage(shape, row_offset, col_offset, width, height, band) ==
    LET ndim == Len(shape)
        cw   == CheckWidth(shape, col_offset, width)
        ch   == CheckHeight(shape, row_offset, height)
        args == [shape |-> shape, row_offset |-> row_offset, col_offset |-> col_offset,
                 width |-> width, height |-> height, band |-> band]
    IN  IF ndim > 3 THEN [status |-> DimsError, args |-> args]
        ELSE IF ndim = 2 /\ BandRejected(band) THEN [status |-> BandError, args |-> args]
        ELSE IF ndim < 2 THEN [status |-> "IndexError", args |-> args]
        ELSE IF cw.err # "none" THEN [status |-> cw.err, args |-> args]
        ELSE IF ch.err # "none" THEN [status |-> ch.err, args |-> args]
        ELSE [status |-> "constructed", args |-> args,
              shape |-> shape, row_offset |-> row_offset, col_offset |-> col_offset,
              width |-> cw.width, height |-> ch.height, band |-> band]

\* The entries selected by a[start:stop] on an axis of n entries
SliceLen(start, stop, n) ==
    LET lo == IF start < 0 THEN Max(start + n, 0) ELSE Min(start, n)
        hi == IF stop < 0 THEN Max(stop + n, 0) ELSE Min(stop, n)
    IN  Max(hi - lo, 0)

\* open_target(target_image): the shape of the array returned (or the
\* exception), and target_image.data (made 3D)
OpenTarget(t) ==
    LET shape3  == IF Len(t.shape) = 2 THEN Append(t.shape, 1) ELSE t.shape
        row_off == t.row_offset
        col_off == t.col_offset
    IN  IF t.band >= shape3[3] \/ t.band < -shape3[3]
        THEN [t EXCEPT !.status = "IndexError", !.shape = shape3]
        ELSE [status |-> "opened", args |-> t.args,
              shape |-> shape3, row_offset |-> t.row_offset,
              col_offset |-> t.col_offset, width |-> t.width, height |-> t.height,
              band |-> t.band,
              arr_shape |-> <<SliceLen(row_off, row_off + t.height, shape3[1]),
                              SliceLen(col_off, col_off + t.width, shape3[2])>>]

Shapes == UNION {[1..n -> 1..MaxDim] : n \in 1..4}
Offsets == (-1)..MaxDim
Extents == (-1)..(MaxDim + 1)
Bands == (-1)..MaxDim

\* target = TargetImage(...)
Construct ==
    /\ ti = Idle
    /\ \E shape \in Shapes, row_offset \in Offsets, col_offset \in Offsets,
          width \in Extents, height \in Extents, band \in Bands :
            ti' = NewTargetImage(shape, row_offset, col_offset, width, height, band)
    /\ UNCHANGED <<readVars, fwd, geoVars>>

\* open_target(target)
Open ==
    /\ ti.status = "constructed"
    /\ ti' = OpenTarget(ti)
    /\ UNCHANGED <<readVars, fwd, geoVars>>

InitTarget == ReadIdle /\ TargetIdle /\ FwdIdle /\ GeoIdle

NextTarget == Construct \/ Open

SpecTarget == InitTarget /\ [][NextTarget]_vars

(***************************************************************************)
(* forward_geotransform.  Coordinates are integers here; the function adds *)
(* and multiplies only.                                                    *)
(***************************************************************************)
MaxPixel == 10   \* pixel coordinates -1..MaxPixel

\* Mutant of ForwardGeotransform: the two skew coefficients are applied
ForwardGeotransform_Skewed(x_pixel, y_pixel, geotrans) ==
    <<geotrans[1] + x_pixel * geotrans[2] + y_pixel * geotrans[3],
      geotrans[4] + x_pixel * geotrans[5] + y_pixel * geotrans[6]>>

\* forward_geotransform(x_pixel, y_pixel, geotrans)
ForwardGeotransform(x_pixel, y_pixel, geotrans) ==
    LET origin_x     == geotrans[1]
        pixel_width  == geotrans[2]
        origin_y     == geotrans[4]
        pixel_height == geotrans[6]
        x_geo        == origin_x + x_pixel * pixel_width
        y_geo        == origin_y + y_pixel * pixel_height
    IN  <<x_geo, y_geo>>

\* BaseImage.geotransform by default (base_image.py, line 21), an axis-aligned
\* transform and two transforms with skew
GeoTransforms == { <<0, 1, 0, 0, 0, 1>>,
                   <<100, 2, 0, 50, 0, -2>>,
                   <<100, 2, 3, 50, 7, -2>>,
                   <<-5, 3, -1, 8, 2, 4>> }

InitFwd ==
    /\ \E x \in (-1)..MaxPixel, y \in (-1)..MaxPixel, gt \in GeoTransforms :
          fwd = [status |-> "args", x |-> x, y |-> y, geotrans |-> gt]
    /\ ReadIdle /\ TargetIdle /\ GeoIdle

\* a call forward_geotransform(x, y, geotrans)
Forward ==
    /\ fwd.status = "args"
    /\ fwd' = [status |-> "returned", x |-> fwd.x, y |-> fwd.y,
               geotrans |-> fwd.geotrans,
               out |-> ForwardGeotransform(fwd.x, fwd.y, fwd.geotrans)]
    /\ UNCHANGED <<readVars, ti, geoVars>>

NextFwd == Forward

SpecFwd == InitFwd /\ [][NextFwd]_vars

(***************************************************************************)
(* The Georeferencer session.  The handlers that only move the view        *)
(* (on_scroll, on_motion, update) touch neither the session state nor the  *)
(* ledger and have no action here.                                         *)
(***************************************************************************)
MaxGcps == 2    \* lines appended to a ledger, at most

\* Paths are a fixed stem with one of these suffixes
Suffixes == {"", ".txt", ".gcps"}

\* the save_path arguments of a session
SavePaths == {".txt", ".gcps"}

Absent == [exists |-> FALSE, lines |-> <<>>]
File(lines) == [exists |-> TRUE, lines |-> lines]

\* Path(save_path).with_suffix(".gcps"), line 47
LedgerPath(save_path) == ".gcps"

\* GeorefSteps.data
StepsData == <<"target", "base", "saved">>

\* GeorefSteps.__next__: the value returned and the index left
StepsNext(index) == [value |-> StepsData[index + 1], index |-> (index + 1) % Len(StepsData)]

\* GCPString("", "", "")
EmptyGcp == [pixel_coords |-> <<>>, map_coords |-> <<>>, id |-> ""]

\* GeorefState(): the attributes an instance reads from the class until it
\* assigns them
NewState == [georef_current_step |-> "", gcp_selected |-> TRUE,
             gcp_count |-> 0, is_panning |-> FALSE, pan_ax |-> "none"]

\* the Georeferencer made by a call that returned: self.save_path, self._state
NewSession(path) == [alive |-> TRUE, save_path |-> path] @@ NewState

NoSession == [alive |-> FALSE, save_path |-> ""] @@ NewState

\* the values uuid4() may return
UUIDs == {"id1", "id2"}

\* event.xdata, event.ydata of a click
ClickPoints == {<<0, 0>>, <<1, 2>>}

\* base_image.geotransform and the window of open_base (base_image.py, 47-51)
BaseTransform == <<100, 2, 0, 50, 0, -2>>
BaseWindow == [col_off |-> 1, row_off |-> 2]

\* the target images a session is opened on, after open_target
SessionTargets ==
    { OpenTarget(NewTargetImage(<<2, 2, 2>>, 1, 0, 1, -1, 1)) }

\* Georeferencer.__init__, lines 55-61: the lines written to the new ledger
HeaderLines(target, src_path) ==
    << <<"Source for Target Image", src_path>>,
       <<"Row Offset", target.row_offset>>,
       <<"Column Offset", target.col_offset>>,
       <<"Target Image Height", target.height>>,
       <<"Target Image Width", target.width>>,
       <<"Target Image Band Used", target.band>>,
       <<"index, pixel_row, pixel_col, map_x, map_y, ID">> >>

\* Mutant of CreateLedger: the file is opened for appending
CreateLedger_Append(old, lines) == File(old.lines \o lines)

\* open(self.save_path, "w") and the writes, lines 54-61
CreateLedger(old, lines) == File(lines)

\* open(self.save_path, "a") and the writes, lines 269-272: one line, the
\* attributes of current_gcp in order
AppendGcp(old, gcp) == File(Append(old.lines, <<gcp.pixel_coords, gcp.map_coords, gcp.id>>))

InitGeo ==
    /\ \E old \in {Absent, File(<< <<"stale">> >>)} :
            files = [s \in Suffixes |-> IF s = ".gcps" THEN old ELSE Absent]
    /\ steps_index = 0
    /\ current_gcp = EmptyGcp
    /\ session = NoSession
    /\ ctor = [status |-> "idle", overwrite_save |-> FALSE, tick |-> 0]
    /\ ReadIdle /\ TargetIdle /\ FwdIdle

\* Georeferencer(target_image, base_image, save_path, overwrite_save), up to
\* the ledger; the rest builds the figure and the state of the new session.
\* The step iterator and current_gcp belong to the class GeorefState and are
\* not made anew.  ctor records the call and how it ended; its tick changes
\* with every call.
NewGeoreferencer ==
    \E target \in SessionTargets, save_path \in SavePaths, overwrite_save \in BOOLEAN :
      LET path == LedgerPath(save_path)
          call == [overwrite_save |-> overwrite_save, tick |-> 1 - ctor.tick]
      IN  IF files[path].exists /\ ~overwrite_save
          THEN /\ ctor' = [status |-> "FileExistsError"] @@ call
               /\ UNCHANGED <<files, steps_index, current_gcp, session>>
          ELSE /\ files' = [files EXCEPT ![path] =
                          CreateLedger(files[path], HeaderLines(target, "m3.img"))]
               /\ ctor' = [status |-> "ok"] @@ call
               /\ session' = NewSession(path)
               /\ UNCHANGED <<steps_index, current_gcp>>

Construction == NewGeoreferencer /\ UNCHANGED <<readVars, ti, fwd>>

\* Georeferencer.on_button_press(event); event.xdata and event.ydata are read
\* only for a left click in the axes of the current step
OnButtonPress ==
    /\ session.alive
    /\ \E button \in {1, 2, 3}, inaxes \in {"targ", "base", "none"} :
         LET s1 == IF button = 2 /\ inaxes \in {"targ", "base"}
                   THEN [session EXCEPT !.is_panning = TRUE, !.pan_ax = inaxes]
                   ELSE session
             step == session.georef_current_step
         IN  IF button = 1 /\ step = "target" /\ inaxes = "targ"
             THEN \E xy \in ClickPoints :
                    LET xdata == xy[1]
                        ydata == xy[2]
                    IN  /\ current_gcp' = [current_gcp EXCEPT !.pixel_coords =
                                              <<session.gcp_count, ydata, xdata>>]
                        /\ session' = [s1 EXCEPT !.gcp_selected = TRUE]
             ELSE IF button = 1 /\ step = "base" /\ inaxes = "base"
             THEN \E xy \in ClickPoints :
                    LET xdata    == xy[1]
                        ydata    == xy[2]
                        base_row == xdata + BaseWindow.col_off
                        base_col == ydata + BaseWindow.row_off
                    IN  /\ current_gcp' = [current_gcp EXCEPT !.map_coords =
                               ForwardGeotransform(base_row, base_col, BaseTransform)]
                        /\ session' = [s1 EXCEPT !.gcp_selected = TRUE]
             ELSE /\ session' = s1
                  /\ UNCHANGED current_gcp
    /\ UNCHANGED <<files, steps_index, ctor, readVars, ti, fwd>>

\* Georeferencer.on_release(event)
OnRelease ==
    /\ session.alive
    /\ \E button \in {1, 2} :
         session' = IF button = 2
                    THEN [session EXCEPT !.is_panning = FALSE, !.pan_ax = "none"]
                    ELSE session
    /\ UNCHANGED <<files, steps_index, current_gcp, ctor, readVars, ti, fwd>>

\* Georeferencer.on_key_press(event)
OnKeyPress ==
    /\ session.alive
    /\ \E key \in {"right", "a"} :
         LET advance == key = "right" /\ session.gcp_selected
             nxt     == StepsNext(steps_index)
             s1      == IF advance
                        THEN [session EXCEPT !.georef_current_step = nxt.value,
                                             !.gcp_selected = FALSE]
                        ELSE session
             path    == session.save_path
         IN  /\ steps_index' = IF advance THEN nxt.index ELSE steps_index
             /\ IF s1.georef_current_step = "saved"
                THEN /\ session.gcp_count < MaxGcps
                     /\ session' = [s1 EXCEPT !.gcp_selected = TRUE,
                                              !.gcp_count = session.gcp_count + 1]
                     /\ \E id \in UUIDs : current_gcp' = [current_gcp EXCEPT !.id = id]
                     /\ files' = [files EXCEPT ![path] =
                                    AppendGcp(files[path], current_gcp')]
                ELSE /\ session' = s1
                     /\ UNCHANGED <<current_gcp, files>>
    /\ UNCHANGED <<ctor, readVars, ti, fwd>>

NextGeo == Construction \/ OnButtonPress \/ OnRelease \/ OnKeyPress

SpecGeo == InitGeo /\ [][NextGeo]_vars

\* A process that opens one session: Georeferencer(...) is called until a
\* call returns, as cli.py does
FirstConstruction == ~session.alive /\ Construction

NextSession == FirstConstruction \/ OnButtonPress \/ OnRelease \/ OnKeyPress

SpecSession == InitGeo /\ [][NextSession]_vars

(***************************************************************************)
(* All units together.                                                     *)
(***************************************************************************)
Init == InitRead \/ InitHdr \/ InitZero \/ InitTarget \/ InitFwd \/ InitGeo

Next == NextRead \/ NextTarget \/ NextFwd \/ NextGeo

Spec == Init /\ [][Next]_vars

(***************************************************************************)
(* Claims about read_m3.                                                   *)
(***************************************************************************)
KnownCodes == {2, 4, 5}

\* a call was made on a header read_m3 can parse, so that a window was looked at
Called == rd.status # "idle" /\ geom.code \in KnownCodes

\* floor(file_size_bytes / row_stride_bytes), from the geometry of the file
TrueRows == img_size \div RowStride(geom)

\* the file offset of the sample at physical row r, band segment b, column c
StoredAt(r, b, c) ==
    r * RowStride(geom) + geom.hdrlen + (b * geom.ncols + c) * geom.nbytes

Fits == rd.X + rd.W <= geom.ncols /\ rd.Y + rd.H <= TrueRows

\* C1 (as claimed): for every valid window (w > 0, h > 0) with x >= 0, y >= 0
\* and w # 320, the frame returned holds at [r, c, b] the sample stored at
\* physical row y+r, band segment b, column x+c.
C1_RoundTrip ==
    (Called /\ Fits /\ rd.X >= 0 /\ rd.Y >= 0 /\ rd.W > 0 /\ rd.H > 0
            /\ rd.W # MirrorWidth)
    => /\ rd.status = "ok"
       /\ \A r \in 0..(rd.H - 1), c \in 0..(rd.W - 1), b \in 0..(geom.nbands - 1) :
             rd.frame[r][c][b] = StoredAt(rd.Y + r, b, rd.X + c)

\* C2 (as claimed): every window with x+w <= sample_count and
\* y+h <= total_row_count is read without an exception and gives a frame of
\* shape (h, w, band_count).
ShapeOk ==
    /\ rd.shape = <<rd.H, rd.W, geom.nbands>>
    /\ DOMAIN rd.frame = 0..(rd.H - 1)
    /\ \A r \in DOMAIN rd.frame :
          /\ DOMAIN rd.frame[r] = 0..(rd.W - 1)
          /\ \A c \in DOMAIN rd.frame[r] : DOMAIN rd.frame[r][c] = 0..(geom.nbands - 1)

C2_AnyFittingWindow ==
    (Called /\ Fits) => (rd.status = "ok" /\ ShapeOk)

\* C2 (amended): every window with x >= 0, y >= 0, w > 0, h > 0,
\* x+w <= sample_count and y+h <= total_row_count is read without an
\* exception and gives a frame of shape (h, w, band_count).
C2_FittingWindow ==
    (Called /\ Fits /\ rd.X >= 0 /\ rd.Y >= 0 /\ rd.W > 0 /\ rd.H > 0)
    => (rd.status = "ok" /\ ShapeOk)

C2_Witness ==
    /\ Called /\ rd.status = "ok"
    /\ rd.X > 0 /\ rd.Y > 0 /\ rd.W > 0 /\ rd.H > 0
    /\ geom.nbands > 1 /\ geom.hdrlen > 0 /\ geom.extra > 0

\* C3: with total_row_count = floor(file size / row stride), a window beyond
\* the rows only fails with the row-bound error, one beyond the columns only
\* with the column-bound error, one beyond both with the combined error; the
\* three errors differ and no byte of the image is read.
RowViolation == rd.Y + rd.H > TrueRows
ColViolation == rd.X + rd.W > geom.ncols

C3_WindowErrors ==
    /\ RowBoundError # ColBoundError
    /\ RowBoundError # BothBoundError
    /\ ColBoundError # BothBoundError
    /\ Called =>
         /\ (RowViolation /\ ~ColViolation) => rd.status = RowBoundError
         /\ (ColViolation /\ ~RowViolation) => rd.status = ColBoundError
         /\ (RowViolation /\ ColViolation) => rd.status = BothBoundError
         /\ (RowViolation \/ ColViolation) => (rd.nread = 0 /\ rd.reads = <<>>)

\* a window that ends inside the trailing partial row of the file
C3_Witness ==
    /\ Called /\ geom.extra > 0
    /\ rd.Y >= 0 /\ rd.H > 0 /\ rd.X >= 0 /\ rd.W > 0
    /\ rd.Y + rd.H = geom.rows + 1
    /\ ~ColViolation
    /\ rd.status = RowBoundError

\* C5 (as claimed): with an entry "major frame offsets = {a, b}" the header
\* length used is a, without the entry it is 0 and the header parses.
C5_HeaderLength ==
    (rd.status # "idle")
    => /\ rd.geom.err = "none"
       /\ rd.geom.hdrlen = (IF geom.off = None THEN 0 ELSE geom.off[1])

\* C10: a window of width 320 is returned with its columns reversed (column c
\* holds column 319 - c of the decode), a window of another width as decoded.
Unmirrored ==
    Decode(LoopConsts(rd.geom, img_size, rd.X, rd.Y, rd.W, rd.H)).frame

C10_Mirroring ==
    (Called /\ rd.status = "ok")
    => LET un == Unmirrored
       IN  IF rd.W = 320
           THEN \A r \in 0..(rd.H - 1), c \in 0..319, b \in 0..(geom.nbands - 1) :
                   rd.frame[r][c][b] = un[r][319 - c][b]
           ELSE rd.frame = un

C10_Witness ==
    /\ Called /\ rd.status = "ok" /\ rd.W = 320 /\ rd.H > 1 /\ geom.nbands > 1
    /\ rd.frame[1][0][0] # rd.frame[1][319][0]

\* C13: for a window that passed validation with x >= 0, y >= 0, w > 0 and
\* h > 0, the file position at the start of output row i is (y + i) times the
\* row stride, and every read made for output row i asks for bytes inside
\* physical row y + i, which ends at or before the end of the file, so that
\* every read delivers all the bytes asked for.
PassedValidation ==
    /\ Called
    /\ rd.status \notin {RowBoundError, ColBoundError, BothBoundError}

C13_FilePosition ==
    (PassedValidation /\ rd.X >= 0 /\ rd.Y >= 0 /\ rd.W > 0 /\ rd.H > 0)
    => LET stride == RowStride(geom)
       IN  /\ Len(rd.starts) = rd.H
           /\ \A i \in 0..(rd.H - 1) : rd.starts[i + 1] = (rd.Y + i) * stride
           /\ Len(rd.reads) = rd.H * geom.nbands
           /\ \A k \in 1..Len(rd.reads) :
                 LET e  == rd.reads[k]
                     lo == (rd.Y + e.row) * stride
                 IN  /\ e.row = (k - 1) \div geom.nbands
                     /\ lo <= e.from
                     /\ e.from + e.asked <= lo + stride
                     /\ lo + stride <= img_size
                     /\ e.got = e.asked

\* a window of two rows and two bands that starts right of the first column
\* and ends left of the last, on a file with header bytes in each row
C13_Witness ==
    /\ PassedValidation /\ rd.status = "ok"
    /\ rd.X > 0 /\ rd.H > 1 /\ rd.W > 0 /\ rd.X + rd.W < geom.ncols
    /\ geom.nbands > 1 /\ geom.hdrlen > 0
    /\ Len(rd.reads) = rd.H * geom.nbands
    /\ rd.starts[2] = (rd.Y + 1) * RowStride(geom)

(***************************************************************************)
(* Claims about TargetImage.                                               *)
(***************************************************************************)
Made == ti.status # "idle"

\* C7 (as claimed): a 2D array with any non-zero band index is refused with
\* the invalid-band error; a 3D array with a band index in the range of its
\* band axis (and a window within the array) is constructed.
C7_BandCheck ==
    Made =>
      /\ (Len(ti.args.shape) = 2 /\ ti.args.band # 0) => ti.status = BandError
      /\ ( /\ Len(ti.args.shape) = 3
           /\ ti.args.band \in 0..(ti.args.shape[3] - 1)
           /\ ti.args.width = -1 /\ ti.args.height = -1 )
         => ti.status \in {"constructed", "opened"}

\* C8 (as claimed): a TargetImage that was constructed (with offsets >= 0)
\* has col_offset + width <= data.shape[1] and
\* row_offset + height <= data.shape[0], and open_target returns an array of
\* shape (height, width).
C8_WindowWithinArray ==
    (Made /\ ti.args.row_offset >= 0 /\ ti.args.col_offset >= 0) =>
      /\ ti.status \in {"constructed", "opened"} =>
           /\ ti.col_offset + ti.width <= ti.shape[2]
           /\ ti.row_offset + ti.height <= ti.shape[1]
      /\ ti.status = "opened" => ti.arr_shape = <<ti.height, ti.width>>

(***************************************************************************)
(* Claims about forward_geotransform.                                      *)
(***************************************************************************)

\* C9: forward_geotransform(x, y, (origin_x, pixel_width, row_skew, origin_y,
\* col_skew, pixel_height)) is (origin_x + x * pixel_width,
\* origin_y + y * pixel_height) whatever the skews; with (100, 2, 0, 50, 0, -2),
\* (0, 0) gives (100, 50) and (10, 5) gives (120, 40).
C9_Forward ==
    fwd.status = "returned" =>
      /\ fwd.out = <<fwd.geotrans[1] + fwd.x * fwd.geotrans[2],
                     fwd.geotrans[4] + fwd.y * fwd.geotrans[6]>>
      /\ (fwd.geotrans = <<100, 2, 0, 50, 0, -2>> /\ fwd.x = 0 /\ fwd.y = 0)
           => fwd.out = <<100, 50>>
      /\ (fwd.geotrans = <<100, 2, 0, 50, 0, -2>> /\ fwd.x = 10 /\ fwd.y = 5)
           => fwd.out = <<120, 40>>
      /\ (fwd.geotrans = <<100, 2, 3, 50, 7, -2>> /\ fwd.x = 10 /\ fwd.y = 5)
           => fwd.out = <<120, 40>>

\* a transform with skew applied to a pixel off both axes
C9_Witness ==
    /\ fwd.status = "returned"
    /\ fwd.geotrans = <<100, 2, 3, 50, 7, -2>> /\ fwd.x = 10 /\ fwd.y = 5
    /\ fwd.out = <<120, 40>>

(***************************************************************************)
(* Claims about the Georeferencer session.                                 *)
(***************************************************************************)
Ledger == files[".gcps"]

\* a step made by a call Georeferencer(...)
IsConstruction == ctor'.tick # ctor.tick

\* C4 (as claimed): a step of a session appends to the ledger only when it
\* is the key press that takes the step from base to saved, and that key
\* press appends exactly one line.
C4_OneLinePerGcp ==
    [][ ~IsConstruction =>
          /\ (files' # files) =>
                /\ session.georef_current_step = "base"
                /\ session'.georef_current_step = "saved"
          /\ ( /\ session.georef_current_step = "base"
               /\ session'.georef_current_step = "saved" )
             => /\ Len(Ledger'.lines) = Len(Ledger.lines) + 1
                /\ SubSeq(Ledger'.lines, 1, Len(Ledger.lines)) = Ledger.lines
      ]_vars

\* C6: when the .gcps path exists and overwrite_save is false the
\* construction fails with the existing-path error and leaves the file as it
\* was; when overwrite_save is true it succeeds and the file holds the six
\* metadata lines and the column header line, nothing else.
C6_LedgerCreation ==
    [][ (IsConstruction /\ Ledger.exists) =>
          IF ctor'.overwrite_save
          THEN /\ ctor'.status = "ok"
               /\ Ledger'.exists
               /\ Len(Ledger'.lines) = 7
               /\ \A k \in 1..6 : Len(Ledger'.lines[k]) = 2
               /\ Ledger'.lines[1][1] = "Source for Target Image"
               /\ Ledger'.lines[2][1] = "Row Offset"
               /\ Ledger'.lines[3][1] = "Column Offset"
               /\ Ledger'.lines[4][1] = "Target Image Height"
               /\ Ledger'.lines[5][1] = "Target Image Width"
               /\ Ledger'.lines[6][1] = "Target Image Band Used"
               /\ Ledger'.lines[7] = <<"index, pixel_row, pixel_col, map_x, map_y, ID">>
          ELSE /\ ctor'.status = "FileExistsError"
               /\ files' = files
               /\ session' = session
      ]_vars

\* a ledger with GCP lines was truncated by a new session
C6_Witness ==
    /\ ctor.status = "ok" /\ ctor.overwrite_save /\ ctor.tick = 0
    /\ Len(Ledger.lines) = 7
    /\ session.alive /\ session.gcp_count = 0
    /\ current_gcp.id # ""
\* the step that follows a step in the cycle; a new session has step ""
StepAfter(step) ==
    CASE step = ""       -> "target"
      [] step = "target" -> "base"
      [] step = "base"   -> "saved"
      [] step = "saved"  -> "target"

\* C11: in every session, whenever an event changes the current step, the new
\* step is the next one of the cycle target, base, saved, target, ... and the
\* first step a session takes is target; this holds for a session made after
\* an earlier session of the same process has advanced its step.
C11_StepCycle ==
    [][(~IsConstruction /\ session'.georef_current_step # session.georef_current_step)
          => session'.georef_current_step = StepAfter(session.georef_current_step)]_vars

(***************************************************************************)
(* Claims about read_m3 on a header with a count of zero.                  *)
(***************************************************************************)
\* the header read by the call states zero bands, zero samples or zero lines
ZeroCount ==
    /\ rd.status # "idle"
    /\ rd.geom.err = "none"
    /\ 0 \in {rd.geom.nbands, rd.geom.ncols, rd.geom.nlines}

\* C12 (as claimed): when the band count, the sample count or the line count
\* of the header is zero, every call of read_m3, with the default window or
\* an explicit one, ends in one of the three window-bound errors: it raises
\* nothing else and returns no frame.
C12_ZeroCounts ==
    ZeroCount => rd.status \in {RowBoundError, ColBoundError, BothBoundError}

====
